---- MODULE Spec2Model ----
(***************************************************************************)
(* LiveGraph (src/widgets/live_graph.py): the sampling lifecycle           *)
(* (toggle/start/stop/sample_once/_tick), the rolling sample buffers       *)
(* (_append_sample) and the renderer (redraw) as a state machine.          *)
(*                                                                         *)
(* Numbers.  Timestamps are whole seconds.  Sample values are integers;    *)
(* every float computation of the code that can leave the integer grid     *)
(* (the blend of the smoothed range, the pixel mappings, the labels) is    *)
(* rounded to the nearest grid point by RoundDiv, as a float operation     *)
(* rounds to the nearest float.                                            *)
(*                                                                         *)
(* Scheduler.  parent.after returns a fresh handle and adds a pending      *)
(* timer; a pending timer may fire at any later moment.  Under a           *)
(* "reliable" scheduler after_cancel always removes the timer; under a     *)
(* "best_effort" one it may instead raise and leave the timer pending      *)
(* (stop() swallows the exception).                                        *)
(*                                                                         *)
(* Sampler.  The callable given to the constructor is one of five kinds:   *)
(* it returns numbers, it returns numbers some of which are of a magnitude *)
(* where y + 1.0 = y in floats, it returns mappings over configured names, *)
(* it returns mappings that also carry a name that is no configured        *)
(* series, or it returns something that is neither a number nor a mapping; *)
(* a call of any kind may also raise.                                      *)
(***************************************************************************)
EXTENDS Integers, Sequences, FiniteSets, TLC

\* ------------------------------------------------------------- bounds
\* Total number of completed sample-and-append steps explored.
MaxSteps == 3
\* Largest wall-clock reading (seconds) explored.
MaxTime == 2

\* ------------------------------------------------------ input domains
\* Values a number sampler may produce.
Values == {0, 4}
\* The value a mapping sampler reads for a name, whenever it reports it.
Reading(name) == IF name = "a" THEN 0 ELSE 4
\* A sample value standing for the floats of magnitude 2^53 and more, where
\* neighbouring floats are 2 or more apart and y + 1.0 rounds back to y.
Huge == 1000
\* A name a sampler's mapping may use that is never a configured series.
Unknown == "z"
\* The constructions explored: series (ordered, unique names), max_points
\* > 0, window_seconds > 0, y_padding and smooth_y as <<numerator,
\* denominator>> (smooth_y 3/2 is out of range and clamped by redraw), the
\* log panel, the kind of sampler, the kind of scheduler the parent is, and
\* interval_ms.
Graph(ser, mp, win, pad, smooth, logp, samp, sched, ival) ==
    [series |-> ser, max_points |-> mp, window_seconds |-> win, y_padding |-> pad,
     smooth_y |-> smooth, show_log |-> logp, sampler |-> samp, scheduler |-> sched,
     interval_ms |-> ival]
Graphs ==
    {Graph(<<"a">>, 2, 1, <<0, 1>>, <<1, 2>>, TRUE, "number", "reliable", 1000),
     Graph(<<"a">>, 1, 2, <<0, 1>>, <<0, 1>>, FALSE, "number", "best_effort", 500),
     Graph(<<"a", "b">>, 1, 1, <<1, 2>>, <<3, 2>>, TRUE, "loose_mapping", "reliable", 1000),
     Graph(<<"a">>, 1, 2, <<1, 2>>, <<1, 2>>, TRUE, "mapping", "reliable", 250),
     Graph(<<"a", "b">>, 2, 2, <<0, 1>>, <<1, 1>>, FALSE, "number", "reliable", 1000),
     Graph(<<"a">>, 1, 1, <<0, 1>>, <<1, 1>>, TRUE, "other", "best_effort", 500),
     Graph(<< >>, 1, 1, <<0, 1>>, <<1, 1>>, TRUE, "mapping", "best_effort", 1000)}
\* Constructions whose number sampler also reads values of large magnitude.
WideGraphs ==
    {Graph(<<"a">>, 2, 1, <<1, 2>>, <<1, 1>>, TRUE, "wide_number", "reliable", 1000)}
\* Surface sizes reported by winfo_width/winfo_height (1x1 before mapping).
Sizes == {<<1, 1>>, <<200, 100>>}

\* The handle value meaning "no scheduled callback" (None).
NoId == 0
\* The unset smoothed bound (None) and a set one.
NoneVal == << >>
Some(v) == <<v>>
\* A mapping with no keys.
EmptyMap == [k \in {} |-> 0]

VARIABLES
    series,         \* self.series
    interval_ms,    \* self.interval_ms
    max_points,     \* self.max_points
    window_seconds, \* self.window_seconds
    y_padding,      \* self.y_padding
    smooth_y,       \* self.smooth_y
    show_log,       \* self.log is not None
    sampler,        \* the kind of callable self.sampler is
    scheduler,      \* what self.parent.after_cancel guarantees
    running,        \* self._running
    after_id,       \* self._after_id
    data,           \* self.data
    y_min,          \* self._y_min
    y_max,          \* self._y_max
    btn_text,       \* text of self.btn
    log_len,        \* number of lines in self.log
    log_last,       \* last line of self.log
    size,           \* <<winfo_width, winfo_height>> of self.canvas
    canvas,         \* the items on self.canvas
    timers,         \* the scheduler's pending callbacks (handles)
    clock,          \* the reading of time.time() in the last completed step
    op,             \* the last operation performed and how it ended
    calls,          \* history: what the last operation called, in order, of
                    \* "sampler", "redraw", "after" and "after_cancel"
    fired,          \* history: the handle whose callback the last operation
                    \* was the firing of (NoId when it was no firing)
    steps,          \* history: number of completed sample-and-append steps
    streak          \* history: per series, the latest completed steps in a
                    \* row that gave it a value (how many, the time of the
                    \* first, the newest max_points samples of them)

config == <<series, interval_ms, max_points, window_seconds, y_padding, smooth_y, show_log,
            sampler, scheduler>>
vars == <<series, interval_ms, max_points, window_seconds, y_padding, smooth_y, show_log,
          sampler, scheduler, running, after_id, data, y_min, y_max, btn_text,
          log_len, log_last, size, canvas, timers, clock, op, calls, fired,
          steps, streak>>

\* ------------------------------------------------------------ helpers
Min2(a, b) == IF a <= b THEN a ELSE b
Max2(a, b) == IF a >= b THEN a ELSE b
SetMin(S) == CHOOSE x \in S : \A y \in S : x <= y
SetMax(S) == CHOOSE x \in S : \A y \in S : x >= y
\* n/d rounded to the nearest integer (d > 0), halves upward.
RoundDiv(n, d) == (2 * n + d) \div (2 * d)
\* The element of a one-element set.
Only(S) == CHOOSE x \in S : TRUE
SeriesSet == {series[i] : i \in 1..Len(series)}

\* ------------------------------------------------------------ sampler
\* What a call of self.sampler() may do: return a value of the sampler's
\* kind (a number; a mapping over any subset of the configured names; such
\* a mapping with the unknown name added; something else such as None), or
\* raise.
NumResult(v) == [kind |-> "num", val |-> v, map |-> EmptyMap]
MapResult(m) == [kind |-> "map", val |-> 0, map |-> m]
OtherResult == [kind |-> "other", val |-> 0, map |-> EmptyMap]
RaiseResult == [kind |-> "raise", val |-> 0, map |-> EmptyMap]
Mappings == {[k \in K |-> Reading(k)] : K \in SUBSET SeriesSet}
WithUnknown(m) == [k \in DOMAIN m \cup {Unknown} |-> Reading(k)]
SamplerResults ==
    {RaiseResult} \cup
    (IF sampler = "number" THEN {NumResult(v) : v \in Values}
     ELSE IF sampler = "wide_number" THEN {NumResult(v) : v \in Values \cup {Huge}}
     ELSE IF sampler = "mapping" THEN {MapResult(m) : m \in Mappings}
     ELSE IF sampler = "loose_mapping" THEN {MapResult(WithUnknown(m)) : m \in Mappings}
     ELSE {OtherResult})

\* ----------------------------------------------------- _append_sample
\* Faulty variant of the outcome: a number is taken whatever len(series) is.
SampleExcLax(result) ==
    IF result.kind = "raise" THEN "SamplerError"
    ELSE IF result.kind \in {"num", "map"} THEN "none" ELSE "ValueError"

\* How _append_sample ends for a sampler outcome: the sampler's own
\* exception propagates; a number with len(series) != 1 and a value that
\* is no dict raise ValueError; otherwise it returns normally.
SampleExc(result) ==
    IF result.kind = "raise" THEN "SamplerError"
    ELSE IF result.kind = "num"
         THEN (IF Len(series) # 1 THEN "ValueError" ELSE "none")
         ELSE (IF result.kind # "map" THEN "ValueError" ELSE "none")

\* The dict the loop reads: {series[0]: float(result)} for a number.
ResultMap(result) ==
    IF result.kind = "num" THEN (series[1] :> result.val) ELSE result.map

\* Faulty variant of the membership test: every name is passed over.
ReceivesNone(name, m) == FALSE

\* "if name not in result: continue".
Receives(name, m) == name \in DOMAIN m

\* buf[-k:] as Python evaluates it: -0 is 0, so k = 0 yields the whole list.
PySuffix(buf, k) ==
    IF k = 0 \/ k >= Len(buf) THEN buf
    ELSE SubSeq(buf, Len(buf) - k + 1, Len(buf))

\* Faulty variants of the hard cap: none at all, and one that keeps the
\* oldest max_points entries instead of the newest.
HardCapMissing(buf) == buf
HardCapOldest(buf) == IF Len(buf) > max_points THEN SubSeq(buf, 1, max_points) ELSE buf

\* The hard cap: if len(buf) > max_points: buf = buf[-max_points:].
HardCap(buf) ==
    IF Len(buf) > max_points THEN PySuffix(buf, max_points) ELSE buf

\* self.data[name].append((now, y)) followed by the hard cap.
AppendCapped(buf, now, y) == HardCap(Append(buf, <<now, y>>))

\* The auto-scroll filter: [(t, y) for (t, y) in buf if t >= cutoff].
WindowTrim(buf, cutoff) ==
    LET Keep(p) == p[1] >= cutoff IN SelectSeq(buf, Keep)

\* self.data after a step that returns normally.
AppendedData(d, now, m) ==
    [s \in DOMAIN d |->
        WindowTrim(IF Receives(s, m) THEN AppendCapped(d[s], now, m[s]) ELSE d[s],
                   now - window_seconds)]

\* f"{y:.3f}": the value in thousandths.
Fmt3(y) == y * 1000

\* line_parts, in the order of self.series.
RECURSIVE LineParts(_, _)
LineParts(names, m) ==
    IF names = << >> THEN << >>
    ELSE (IF Receives(Head(names), m)
          THEN <<[name |-> Head(names), text |-> Fmt3(m[Head(names)])]>>
          ELSE << >>) \o LineParts(Tail(names), m)

\* Faulty variant of the test: a line is written also when line_parts is empty.
LogsAlways(m) == show_log

\* Whether the step writes a log line: self.log is not None and line_parts.
Logs(m) == show_log /\ LineParts(series, m) # << >>

\* The streaks after a completed step that read the dict m at time now: a
\* series the loop passes over starts again; one it appends to has one more
\* step, and the oldest remembered sample goes once max_points are held.
NoStreak == [n |-> 0, since |-> 0, last |-> << >>]
Newest(samples) == IF Len(samples) > max_points THEN Tail(samples) ELSE samples
StreakAfter(st, now, m) ==
    [s \in DOMAIN st |->
        IF s \in DOMAIN m
        THEN [n |-> st[s].n + 1,
              since |-> IF st[s].n = 0 THEN now ELSE st[s].since,
              last |-> Newest(Append(st[s].last, <<now, m[s]>>))]
        ELSE NoStreak]

\* ------------------------------------------------------------- redraw
pad_left == 54
pad_right == 16
pad_top == 16
pad_bottom == 44
\* len(_SERIES_COLORS)
PaletteLen == 6

\* One canvas item: the primitive, its numeric arguments, its text or role.
Item(kind, xs, text) == [kind |-> kind, xs |-> xs, text |-> text]

\* w = max(10, winfo_width()), h = max(10, winfo_height()).
SurfW(sz) == Max2(10, sz[1])
SurfH(sz) == Max2(10, sz[2])

\* all_points: every buffer's points, in the order of self.series.
RECURSIVE AllPointsOf(_, _)
AllPointsOf(names, d) ==
    IF names = << >> THEN << >>
    ELSE d[Head(names)] \o AllPointsOf(Tail(names), d)
AllPoints(d) == AllPointsOf(series, d)

TimesOf(pts) == {pts[i][1] : i \in 1..Len(pts)}
ValuesOf(pts) == {pts[i][2] : i \in 1..Len(pts)}
\* raw_min and raw_max of the buffers d (which hold at least one point).
RawMin(d) == SetMin(ValuesOf(AllPoints(d)))
RawMax(d) == SetMax(ValuesOf(AllPoints(d)))

\* a = max(0.0, min(1.0, self.smooth_y)), as <<numerator, denominator>>.
Alpha ==
    IF smooth_y[1] < 0 THEN <<0, 1>>
    ELSE IF smooth_y[1] > smooth_y[2] THEN <<1, 1>>
    ELSE smooth_y

\* (1 - a) * old + a * raw.
Blend(old, raw) ==
    RoundDiv((Alpha[2] - Alpha[1]) * old + Alpha[1] * raw, Alpha[2])

\* Faulty variant of the widening: the blended bound is kept as it is.
WidenMinMissing(blended, raw) == blended

\* self._y_min = min(self._y_min, raw_min), on the blended bound.
WidenMin(blended, raw) == Min2(blended, raw)
\* self._y_max = max(self._y_max, raw_max), on the blended bound.
WidenMax(blended, raw) == Max2(blended, raw)

\* <<self._y_min, self._y_max>> after the update of the smoothed range.
SmoothedRange(lo, hi, raw_min, raw_max) ==
    IF lo = NoneVal \/ hi = NoneVal THEN <<raw_min, raw_max>>
    ELSE <<WidenMin(Blend(lo[1], raw_min), raw_min),
           WidenMax(Blend(hi[1], raw_max), raw_max)>>

\* y + 1.0 as the float addition computes it, for y in units of 1/unit:
\* exact below the magnitude Huge stands for, absorbed from there on.
PlusOne(y, unit) == IF y >= Huge * unit THEN y ELSE y + unit
\* The bounds the mappings use, after the zero-range guards and the padding.
\* The y bounds are kept in units of 1/ys (ys the denominator of y_padding),
\* which keeps y_rng * y_padding exact.
DrawBounds(pts, lo, hi) ==
    LET t_min == SetMin(TimesOf(pts))
        t_max0 == SetMax(TimesOf(pts))
        t_max == IF t_max0 = t_min THEN PlusOne(t_min, 1) ELSE t_max0
        hi1 == IF hi = lo THEN PlusOne(lo, 1) ELSE hi
        y_rng == hi1 - lo
        ys == y_padding[2]
        lo2 == lo * ys - y_rng * y_padding[1]
        hi2 == hi1 * ys + y_rng * y_padding[1]
        hi3 == IF hi2 = lo2 THEN PlusOne(lo2, ys) ELSE hi2
    IN [t_min |-> t_min, t_max |-> t_max, y_min |-> lo2, y_max |-> hi3, ys |-> ys]

\* x_of(t) and y_of(y), in pixels.
XOf(t, b, x0, x1) == x0 + RoundDiv((t - b.t_min) * (x1 - x0), b.t_max - b.t_min)
YOf(y, b, y0, y1) ==
    y1 - RoundDiv((y * b.ys - b.y_min) * (y1 - y0), b.y_max - b.y_min)

\* _draw_frame.
DrawFrame(w, h) ==
    <<Item("rectangle", <<pad_left, pad_top, w - pad_right, h - pad_bottom>>, "frame")>>

\* The placeholder of a surface with fewer than 2 points.
DrawWaiting(w, h) == <<Item("text", <<w \div 2, h \div 2>>, "Waiting for data")>>

\* _draw_grid_and_labels: per grid step i = 0..4 a horizontal line at y with
\* its f"{yv:.2f}" label (in hundredths) and a vertical line at x with the
\* whole second of tv as its label; then the two captions.
GridRow(i, b, w, h) ==
    LET y == (h - pad_bottom) - RoundDiv(i * ((h - pad_bottom) - pad_top), 4)
    IN <<Item("line", <<pad_left, y, w - pad_right, y>>, "grid"),
         Item("text", <<6, y, RoundDiv(100 * (4 * b.y_min + i * (b.y_max - b.y_min)),
                                       4 * b.ys)>>, "w")>>
GridCol(i, b, w, h) ==
    LET x == pad_left + RoundDiv(i * ((w - pad_right) - pad_left), 4)
    IN <<Item("line", <<x, pad_top, x, h - pad_bottom>>, "grid"),
         Item("text", <<x, h - pad_bottom + 4,
                        b.t_min + (i * Max2(1, b.t_max - b.t_min)) \div 4>>,
              IF i = 0 THEN "nw" ELSE IF i = 4 THEN "ne" ELSE "n")>>
DrawGrid(b, w, h) ==
    GridRow(0, b, w, h) \o GridRow(1, b, w, h) \o GridRow(2, b, w, h)
    \o GridRow(3, b, w, h) \o GridRow(4, b, w, h)
    \o GridCol(0, b, w, h) \o GridCol(1, b, w, h) \o GridCol(2, b, w, h)
    \o GridCol(3, b, w, h) \o GridCol(4, b, w, h)
    \o <<Item("text", <<pad_left, 2>>, "Value"), Item("text", <<w \div 2, h - 2>>, "Time")>>

\* The polyline and last-point marker of one series (none under 2 points).
DrawSeries(idx, pts, b, w, h) ==
    IF Len(pts) < 2 THEN << >>
    ELSE LET X(i) == XOf(pts[i][1], b, pad_left, w - pad_right)
             Y(i) == YOf(pts[i][2], b, pad_top, h - pad_bottom)
             color == (idx - 1) % PaletteLen
         IN <<Item("line",
                   [k \in 1..(2 * Len(pts)) |->
                       IF k % 2 = 1 THEN X((k + 1) \div 2) ELSE Y(k \div 2)],
                   "series"),
              Item("oval", <<X(Len(pts)) - 3, Y(Len(pts)) - 3,
                             X(Len(pts)) + 3, Y(Len(pts)) + 3, color>>, "marker")>>

RECURSIVE DrawAllSeries(_, _, _, _, _)
DrawAllSeries(idx, d, b, w, h) ==
    IF idx > Len(series) THEN << >>
    ELSE DrawSeries(idx, d[series[idx]], b, w, h) \o DrawAllSeries(idx + 1, d, b, w, h)

\* _draw_legend: a swatch and the name per series, stacked in series order.
RECURSIVE DrawLegend(_, _)
DrawLegend(idx, w) ==
    IF idx > Len(series) THEN << >>
    ELSE LET x == (w - pad_right) - 6
             y == pad_top + 6 + 14 * (idx - 1)
         IN <<Item("rectangle", <<x - 90, y, x - 76, y + 10, (idx - 1) % PaletteLen>>, "swatch"),
              Item("text", <<x - 72, y + 5>>, series[idx])>>
            \o DrawLegend(idx + 1, w)

\* x_of or y_of divides by zero: some series is plotted (2 points or more)
\* and a mapping's range is zero.
MappingFails(d, b) ==
    /\ b.t_max = b.t_min \/ b.y_max = b.y_min
    /\ \E i \in 1..Len(series) : Len(d[series[i]]) >= 2
\* The full render with smoothed range sm and mapping bounds b.  A division
\* by zero in the first plotted series propagates with the frame and the
\* grid drawn and the smoothed range already updated.
RenderFull(d, sm, b, w, h) ==
    IF MappingFails(d, b)
    THEN [y_min |-> Some(sm[1]), y_max |-> Some(sm[2]),
          canvas |-> DrawFrame(w, h) \o DrawGrid(b, w, h),
          exc |-> "ZeroDivisionError"]
    ELSE [y_min |-> Some(sm[1]), y_max |-> Some(sm[2]),
          canvas |-> DrawFrame(w, h) \o DrawGrid(b, w, h)
                     \o DrawAllSeries(1, d, b, w, h) \o DrawLegend(1, w),
          exc |-> "none"]

\* Faulty variant of that render: it forgets the smoothed range.
RenderWaitingReset(lo, hi, w, h) ==
    [y_min |-> NoneVal, y_max |-> NoneVal,
     canvas |-> DrawFrame(w, h) \o DrawWaiting(w, h), exc |-> "none"]

\* The render of a surface with fewer than 2 points: the range is untouched.
RenderWaiting(lo, hi, w, h) ==
    [y_min |-> lo, y_max |-> hi,
     canvas |-> DrawFrame(w, h) \o DrawWaiting(w, h), exc |-> "none"]

\* redraw() on buffers d, smoothed range <<lo, hi>> and surface size sz:
\* the new smoothed range, the items left on the canvas and the exception
\* it ends with.
Redraw(d, lo, hi, sz) ==
    Only({IF Len(pts) < 2 THEN RenderWaiting(lo, hi, SurfW(sz), SurfH(sz))
          ELSE Only({Only({RenderFull(d, sm, b, SurfW(sz), SurfH(sz)) :
                             b \in {DrawBounds(pts, sm[1], sm[2])}}) :
                       sm \in {SmoothedRange(lo, hi, SetMin(ValuesOf(pts)),
                                            SetMax(ValuesOf(pts)))}}) :
          pts \in {AllPoints(d)}})

\* -------------------------------------------------------------- state
NoLine == [time |-> 0, parts |-> << >>]
\* op: the operation's name, the exception it ended with, and where the run
\* stands in the sequence "start() on a stopped graph, then stop() at once,
\* then only the scheduler and the renderer act": "started" after the
\* first, "stopped" from the second on, "other" outside it; and "new" for
\* as long as none of start(), toggle() and sample_once() has been called.
PhaseAfter(name) ==
    IF name \in {"stop", "redraw", "resize"} /\ op.phase = "new" THEN "new"
    ELSE IF name = "start" /\ ~running THEN "started"
    ELSE IF name = "stop" /\ op.phase = "started" THEN "stopped"
    ELSE IF name \in {"tick", "redraw", "resize"} /\ op.phase = "stopped" THEN "stopped"
    ELSE "other"
MkOp(name, exc) == [name |-> name, exc |-> exc, phase |-> PhaseAfter(name)]
\* An operation that returned normally.
PlainOp(name) == MkOp(name, "none")

\* __init__ with the arguments g: the configuration is fixed; the graph is
\* created stopped.
Constructed(g) ==
    /\ series = g.series
    /\ interval_ms = g.interval_ms
    /\ max_points = g.max_points
    /\ window_seconds = g.window_seconds
    /\ y_padding = g.y_padding
    /\ smooth_y = g.smooth_y
    /\ show_log = g.show_log
    /\ sampler = g.sampler
    /\ scheduler = g.scheduler
    /\ running = FALSE
    /\ after_id = NoId
    /\ data = [s \in SeriesSet |-> << >>]
    /\ y_min = NoneVal
    /\ y_max = NoneVal
    /\ btn_text = "Start"
    /\ log_len = 0
    /\ log_last = NoLine
    /\ size = <<1, 1>>
    /\ canvas = << >>
    /\ timers = {}
    /\ clock = 0
    /\ op = [name |-> "init", exc |-> "none", phase |-> "new"]
    /\ calls = << >>
    /\ fired = NoId
    /\ steps = 0
    /\ streak = [s \in SeriesSet |-> NoStreak]

Init == \E g \in Graphs : Constructed(g)

\* The readings time.time() may give next.
Nows == clock..MaxTime

\* _append_sample raising: now was read and dropped, nothing changed.
SampleFail(result) ==
    /\ SampleExc(result) # "none"
    /\ UNCHANGED <<data, log_len, log_last, clock, steps, streak>>

\* _append_sample returning normally.
SampleOk(now, result) ==
    /\ SampleExc(result) = "none"
    /\ steps < MaxSteps
    /\ LET m == ResultMap(result)
       IN /\ data' = AppendedData(data, now, m)
          /\ log_len' = IF Logs(m) THEN log_len + 1 ELSE log_len
          /\ log_last' = IF Logs(m)
                         THEN [time |-> now, parts |-> LineParts(series, m)]
                         ELSE log_last
          /\ streak' = StreakAfter(streak, now, m)
    /\ clock' = now
    /\ steps' = steps + 1

\* What a call of redraw() with the outcome r leaves behind.
Drawn(r) ==
    /\ y_min' = r.y_min
    /\ y_max' = r.y_max
    /\ canvas' = r.canvas

\* self.redraw() on the buffers d and the surface size sz.
RedrawOn(d, sz) == \E r \in {Redraw(d, y_min, y_max, sz)} : Drawn(r)

\* parent.after(interval_ms, self._tick): a handle that is neither pending
\* nor the one still stored (handles are opaque, so the least such stands
\* for "fresh"), and the pending set with it.
FreshId(pending) ==
    SetMin({i \in 1..(Cardinality(pending) + 2) : i \notin pending /\ i # after_id})
Scheduled(pending) ==
    [after_id |-> FreshId(pending), timers |-> pending \cup {FreshId(pending)}]

\* Faulty variant of _tick: after the sample and the redraw it schedules
\* nothing.
TickBodyNoReschedule(name, pending) ==
    \/ \E result \in SamplerResults :
          /\ SampleFail(result)
          /\ timers' = pending
          /\ op' = MkOp(name, SampleExc(result))
          /\ calls' = <<"sampler">>
          /\ UNCHANGED <<after_id, y_min, y_max, canvas>>
    \/ \E now \in Nows, result \in SamplerResults :
          /\ SampleOk(now, result)
          /\ RedrawOn(data', size)
          /\ timers' = pending
          /\ op' = PlainOp(name)
          /\ calls' = <<"sampler", "redraw">>
          /\ UNCHANGED after_id

\* _tick with self._running true: _append_sample, redraw, parent.after.
\* An exception of _append_sample propagates before the redraw and the
\* rescheduling, one of redraw before the rescheduling.  pending is the
\* scheduler's set when the handler runs.
TickBody(name, pending) ==
    \/ \E result \in SamplerResults :
          /\ SampleFail(result)
          /\ timers' = pending
          /\ op' = MkOp(name, SampleExc(result))
          /\ calls' = <<"sampler">>
          /\ UNCHANGED <<after_id, y_min, y_max, canvas>>
    \/ \E now \in Nows, result \in SamplerResults :
          /\ SampleOk(now, result)
          /\ \E r \in {Redraw(data', y_min, y_max, size)} :
                /\ Drawn(r)
                /\ op' = MkOp(name, r.exc)
                /\ IF r.exc = "none"
                   THEN /\ after_id' = Scheduled(pending).after_id
                        /\ timers' = Scheduled(pending).timers
                        /\ calls' = <<"sampler", "redraw", "after">>
                   ELSE /\ timers' = pending
                        /\ calls' = <<"sampler", "redraw">>
                        /\ UNCHANGED after_id

\* Faulty variant of start() on a running graph: it runs _tick again.
StartAgain(name) ==
    /\ running
    /\ TickBody(name, timers)
    /\ fired' = NoId
    /\ UNCHANGED <<running, btn_text>>

\* start() when already running: return.
StartNoop(name) ==
    /\ running
    /\ op' = PlainOp(name)
    /\ calls' = << >>
    /\ fired' = NoId
    /\ UNCHANGED <<running, btn_text, after_id, timers, data, y_min, y_max,
                   canvas, log_len, log_last, clock, steps, streak>>

\* Faulty variant of start() on a stopped graph: the button is relabelled
\* only once _tick has returned.
StartBodyLabelsLast(name) ==
    /\ ~running
    /\ running' = TRUE
    /\ TickBody(name, timers)
    /\ btn_text' = IF op'.exc = "none" THEN "Stop" ELSE btn_text
    /\ fired' = NoId

\* start() when stopped: set running, relabel the button, run _tick.
StartBody(name) ==
    /\ ~running
    /\ running' = TRUE
    /\ btn_text' = "Stop"
    /\ TickBody(name, timers)
    /\ fired' = NoId

\* after_cancel(id) on pending: TRUE removes the timer; FALSE is the call
\* raising with the timer left pending.
Cancelled(pending, id, ok) == IF ok THEN pending \ {id} ELSE pending
\* How after_cancel may go under the parent's scheduler.
CancelOutcomes == IF scheduler = "reliable" THEN {TRUE} ELSE BOOLEAN

\* Faulty variant of stop(): the exception of a failed cancel is not caught,
\* so the handle is not forgotten.
StopBodyRaising(name) ==
    /\ running' = FALSE
    /\ btn_text' = "Start"
    /\ \/ /\ after_id = NoId
          /\ op' = PlainOp(name)
          /\ calls' = << >>
          /\ UNCHANGED <<after_id, timers>>
       \/ /\ after_id # NoId
          /\ \E ok \in CancelOutcomes :
                /\ timers' = Cancelled(timers, after_id, ok)
                /\ op' = MkOp(name, IF ok THEN "none" ELSE "TclError")
                /\ after_id' = IF ok THEN NoId ELSE after_id
          /\ calls' = <<"after_cancel">>
    /\ fired' = NoId
    /\ UNCHANGED <<data, y_min, y_max, canvas, log_len, log_last,
                   clock, steps, streak>>

\* Faulty variant of stop(): it cancels the tick but keeps the handle.
StopBodyKeepsHandle(name) ==
    /\ running' = FALSE
    /\ btn_text' = "Start"
    /\ \/ /\ after_id = NoId
          /\ op' = PlainOp(name)
          /\ calls' = << >>
          /\ UNCHANGED timers
       \/ /\ after_id # NoId
          /\ \E ok \in CancelOutcomes :
                /\ timers' = Cancelled(timers, after_id, ok)
                /\ op' = PlainOp(name)
          /\ calls' = <<"after_cancel">>
    /\ fired' = NoId
    /\ UNCHANGED <<after_id, data, y_min, y_max, canvas, log_len, log_last,
                   clock, steps, streak>>

\* stop(): clear running, relabel, cancel and forget the handle.
StopBody(name) ==
    /\ running' = FALSE
    /\ btn_text' = "Start"
    /\ \/ /\ after_id = NoId
          /\ op' = PlainOp(name)
          /\ calls' = << >>
          /\ UNCHANGED <<after_id, timers>>
       \/ /\ after_id # NoId
          /\ \E ok \in CancelOutcomes :
                /\ timers' = Cancelled(timers, after_id, ok)
                /\ op' = PlainOp(name)
          /\ after_id' = NoId
          /\ calls' = <<"after_cancel">>
    /\ fired' = NoId
    /\ UNCHANGED <<data, y_min, y_max, canvas, log_len, log_last,
                   clock, steps, streak>>

\* ---------------------------------------------------------- operations
Start ==
    /\ StartNoop("start") \/ StartBody("start")
    /\ UNCHANGED <<config, size>>

Stop ==
    /\ StopBody("stop")
    /\ UNCHANGED <<config, size>>

\* Faulty variant of toggle(): it calls start() whatever the running flag is.
ToggleAlwaysStarts ==
    /\ StartNoop("toggle") \/ StartBody("toggle")
    /\ UNCHANGED <<config, size>>

Toggle ==
    /\ IF running THEN StopBody("toggle") ELSE StartBody("toggle")
    /\ UNCHANGED <<config, size>>

\* Faulty variant of sample_once(): it also schedules a tick.
SampleOnceScheduling ==
    /\ \E now \in Nows, result \in SamplerResults :
          /\ SampleOk(now, result)
          /\ RedrawOn(data', size)
          /\ after_id' = Scheduled(timers).after_id
          /\ timers' = Scheduled(timers).timers
          /\ op' = PlainOp("sample_once")
          /\ calls' = <<"sampler", "redraw", "after">>
    /\ fired' = NoId
    /\ UNCHANGED <<config, size, running, btn_text>>

SampleOnce ==
    /\ \/ \E result \in SamplerResults :
             /\ SampleFail(result)
             /\ op' = MkOp("sample_once", SampleExc(result))
             /\ calls' = <<"sampler">>
             /\ UNCHANGED <<y_min, y_max, canvas>>
       \/ \E now \in Nows, result \in SamplerResults :
             /\ SampleOk(now, result)
             /\ \E r \in {Redraw(data', y_min, y_max, size)} :
                   /\ Drawn(r)
                   /\ op' = MkOp("sample_once", r.exc)
             /\ calls' = <<"sampler", "redraw">>
    /\ fired' = NoId
    /\ UNCHANGED <<config, size, running, btn_text, after_id, timers>>

\* Faulty variant of the scheduled _tick: it does not look at self._running.
TickFireUnguarded ==
    /\ \E id \in timers : TickBody("tick", timers \ {id}) /\ fired' = id
    /\ UNCHANGED <<config, size, running, btn_text>>

\* Faulty variant of the scheduled _tick: stopped, it still redraws.
TickFireRedraws ==
    /\ \E id \in timers :
          /\ fired' = id
          /\ \/ /\ ~running
                /\ timers' = timers \ {id}
                /\ RedrawOn(data, size)
                /\ op' = PlainOp("tick")
                /\ calls' = <<"redraw">>
                /\ UNCHANGED <<after_id, data, log_len, log_last, clock,
                               steps, streak>>
             \/ /\ running
                /\ TickBody("tick", timers \ {id})
    /\ UNCHANGED <<config, size, running, btn_text>>

\* The scheduler fires a pending callback: _tick.
TickFire ==
    /\ \E id \in timers :
          /\ fired' = id
          /\ \/ /\ ~running
                /\ timers' = timers \ {id}
                /\ op' = PlainOp("tick")
                /\ calls' = << >>
                /\ UNCHANGED <<after_id, data, y_min, y_max, canvas, log_len,
                               log_last, clock, steps, streak>>
             \/ /\ running
                /\ TickBody("tick", timers \ {id})
    /\ UNCHANGED <<config, size, running, btn_text>>

\* Faulty variant of redraw(): it takes a sample before it draws.
RedrawCallSampling ==
    /\ \E now \in Nows, result \in SamplerResults :
          /\ SampleOk(now, result)
          /\ RedrawOn(data', size)
    /\ op' = PlainOp("redraw")
    /\ calls' = <<"sampler", "redraw">>
    /\ fired' = NoId
    /\ UNCHANGED <<config, size, running, btn_text, after_id, timers>>

\* redraw() called on its own.
RedrawCall ==
    /\ \E r \in {Redraw(data, y_min, y_max, size)} :
          /\ Drawn(r)
          /\ op' = MkOp("redraw", r.exc)
    /\ calls' = <<"redraw">>
    /\ fired' = NoId
    /\ UNCHANGED <<config, size, running, btn_text, after_id, timers, data,
                   log_len, log_last, clock, steps, streak>>

\* Faulty variant of the <Configure> handler: it samples before it redraws.
ResizeSampling ==
    /\ \E sz \in Sizes \ {size} :
          /\ size' = sz
          /\ \E now \in Nows, result \in SamplerResults :
                /\ SampleOk(now, result)
                /\ RedrawOn(data', sz)
    /\ op' = PlainOp("resize")
    /\ calls' = <<"sampler", "redraw">>
    /\ fired' = NoId
    /\ UNCHANGED <<config, running, btn_text, after_id, timers>>

\* <Configure>: the surface takes another size and redraw() runs.
Resize ==
    /\ \E sz \in Sizes \ {size} :
          /\ size' = sz
          /\ \E r \in {Redraw(data, y_min, y_max, sz)} :
                /\ Drawn(r)
                /\ op' = MkOp("resize", r.exc)
    /\ calls' = <<"redraw">>
    /\ fired' = NoId
    /\ UNCHANGED <<config, running, btn_text, after_id, timers, data,
                   log_len, log_last, clock, steps, streak>>

Next ==
    \/ Start
    \/ Stop
    \/ Toggle
    \/ SampleOnce
    \/ TickFire
    \/ RedrawCall
    \/ Resize

Spec == Init /\ [][Next]_vars

\* The same graph where the provided sampler never fails and the parent's
\* after_cancel always takes effect: no operation ends in an exception.
InitSteady == Init /\ scheduler = "reliable"

Unfailing == op'.exc = "none"

NextSteady ==
    \/ Start /\ Unfailing
    \/ Stop /\ Unfailing
    \/ Toggle /\ Unfailing
    \/ SampleOnce /\ Unfailing
    \/ TickFire /\ Unfailing
    \/ RedrawCall /\ Unfailing
    \/ Resize /\ Unfailing

SpecSteady == InitSteady /\ [][NextSteady]_vars

\* The graph whose sampler also reads values of large magnitude.
InitWide == \E g \in WideGraphs : Constructed(g)

SpecWide == InitWide /\ [][Next]_vars

\* The graph whose sampler never fails, on an event loop that fires every
\* scheduled callback in the end: a pending tick is not left waiting for
\* ever.
SpecLive == Init /\ [][NextSteady]_vars /\ WF_vars(TickFire /\ Unfailing)

\* ---------------------------------------------------------- properties
\* Vocabulary of the properties.
LastOf(seq) == seq[Len(seq)]
\* The last k entries of seq (k <= Len(seq)).
LastK(seq, k) == SubSeq(seq, Len(seq) - k + 1, Len(seq))
\* a is a (possibly whole, possibly empty) tail end of b.
IsSuffix(a, b) == Len(a) <= Len(b) /\ a = LastK(b, Len(a))
PointCount == Len(AllPoints(data))
SampleOps == {"start", "toggle", "tick", "sample_once"}

\* C1: buffers only change in a sample-and-append step and clock is the
\* timestamp of the latest one, so after every such step (and until the
\* next) every configured series' buffer, whether or not it received a
\* value, has at most max_points entries and no timestamp older than
\* clock - window_seconds.
C1_BuffersBounded ==
    \A s \in SeriesSet :
        /\ Len(data[s]) <= max_points
        /\ \A i \in 1..Len(data[s]) : data[s][i][1] >= clock - window_seconds

\* A third step has just completed on a graph with max_points = 2, each
\* step having given the series a value, the first of them before the
\* window: the cap dropped one of the three samples and the window another.
C1_Witness ==
    /\ op.name \in SampleOps /\ op.exc = "none"
    /\ steps = 3 /\ max_points = 2
    /\ \E s \in SeriesSet :
          /\ streak[s].n = 3
          /\ streak[s].since < clock - window_seconds
          /\ Len(data[s]) = 1

\* C2: whenever the buffers hold at least 2 points in total (every change
\* of the buffers is followed by a redraw within the same operation, so
\* every such state is one a redraw has updated the range for), the
\* smoothed range is set and covers the raw range of the buffered points.
C2_RangeCoversRaw ==
    PointCount >= 2 =>
        /\ y_min # NoneVal /\ y_max # NoneVal
        /\ y_min[1] <= RawMin(data)
        /\ y_max[1] >= RawMax(data)

\* A redraw has just run with 2 points whose raw minimum rose above the
\* smoothed one: the smoothed range is strictly wider than the raw range.
C2_Witness ==
    /\ op.name = "redraw"
    /\ PointCount >= 2
    /\ y_min # NoneVal
    /\ y_min[1] < RawMin(data)

\* C3: a redraw() that directly follows a redraw(), with the buffers and
\* the surface size as the first one found them, leaves the same items on
\* the canvas as the first one did.
C3_RedrawTwiceSame ==
    [][(op.name = "redraw" /\ op'.name = "redraw") => canvas' = canvas]_vars

OneStepOn(s) ==
    LET got == streak'[s].n > 0
        grown == IF got THEN Append(data[s], LastOf(streak'[s].last)) ELSE data[s]
    IN /\ IsSuffix(data'[s], grown)
       /\ got => /\ data'[s] # << >>
                 /\ LastOf(data'[s])[1] = clock'

\* C5: sample_once(), running or not, leaves the running flag, the handle
\* and the scheduler's pending ticks as they were; when it returns normally
\* exactly one step completed, which gave each series in the result one new
\* sample and no other series any; when it raises nothing was appended.
C5_SampleOnceOneStep ==
    [][op'.name = "sample_once" =>
          /\ running' = running
          /\ after_id' = after_id
          /\ timers' = timers
          /\ IF op'.exc = "none"
             THEN steps' = steps + 1 /\ \A s \in SeriesSet : OneStepOn(s)
             ELSE steps' = steps /\ data' = data]_vars

\* sample_once() has completed a step on a running graph whose tick is
\* still the one pending.
C5_Witness ==
    /\ op.name = "sample_once" /\ op.exc = "none"
    /\ running
    /\ steps = 2
    /\ after_id # NoId
    /\ timers = {after_id}
    /\ \E s \in SeriesSet : Len(data[s]) = 2

\* The constructions in which no result of the sampler is usable: a number
\* sampler without exactly one series, a sampler of neither kind.
Unusable == sampler = "other" \/ (sampler = "number" /\ Len(series) # 1)

\* C6: a step ends with the usage error only for a number with a series
\* count other than one or for a value that is neither number nor mapping,
\* and then leaves every buffer as it was; with such a sampler no step ever
\* completes; a number sampler's step that completes does so with exactly
\* one series, which receives the value.
C6_NumberNeedsOneSeries ==
    [][/\ op'.exc = "ValueError" => Unusable /\ data' = data /\ steps' = steps
       /\ Unusable => data' = data /\ steps' = steps
       /\ (sampler = "number" /\ steps' # steps) =>
             /\ Len(series) = 1
             /\ streak'[series[1]].n > 0
             /\ OneStepOn(series[1])]_vars

\* sample_once() has just failed with the usage error on a graph of two
\* series whose sampler returns numbers.
C6_Witness ==
    /\ op.name = "sample_once" /\ op.exc = "ValueError"
    /\ sampler = "number"
    /\ Len(series) = 2
    /\ \A s \in SeriesSet : data[s] = << >>

MappingKinds == {"mapping", "loose_mapping"}

\* C7: with a sampler that returns mappings, the buffers are always those
\* of the configured series and no step ends with the usage error; a step
\* that completes gives each configured series that is a key of the
\* mapping one new sample and no other series any, whatever other keys the
\* mapping has.
C7_MappingKeys ==
    [][(sampler \in MappingKinds) =>
          /\ DOMAIN data' = SeriesSet
          /\ op'.exc # "ValueError"
          /\ (steps' # steps => \A s \in SeriesSet : OneStepOn(s))
          /\ (steps' = steps => data' = data)]_vars

\* A step has just completed on the mapping {"a": ..., "z": ...} with series
\* a and b configured: a has its first sample, b has none, and there is no
\* buffer for z.
C7_Witness ==
    /\ sampler = "loose_mapping"
    /\ op.name \in SampleOps /\ op.exc = "none"
    /\ series = <<"a", "b">>
    /\ steps = 1
    /\ streak["a"].n = 1 /\ streak["b"].n = 0
    /\ Len(data["a"]) = 1 /\ data["b"] = << >>
    /\ DOMAIN data = {"a", "b"}

\* C8: when the latest n >= 1 completed steps in a row gave series s a
\* value and the first of them is still inside the window, the last
\* min(n, max_points) entries of the buffer of s are the min(n, max_points)
\* most recent of those samples, in arrival order; when these n steps are
\* all the steps there were, the buffer holds exactly them.
C8_KeepsMostRecent ==
    \A s \in SeriesSet :
        (streak[s].n >= 1 /\ streak[s].since >= clock - window_seconds) =>
            /\ Len(streak[s].last) = Min2(streak[s].n, max_points)
            /\ Len(data[s]) >= Len(streak[s].last)
            /\ LastK(data[s], Len(streak[s].last)) = streak[s].last
            /\ streak[s].n = steps => data[s] = streak[s].last

\* Three steps in a row inside the window gave the series a value, with
\* max_points = 2: the buffer holds the second and the third sample, which
\* differ, in that order.
C8_Witness ==
    /\ max_points = 2
    /\ steps = 3
    /\ \E s \in SeriesSet :
          /\ streak[s].n = 3
          /\ streak[s].since >= clock - window_seconds
          /\ Len(data[s]) = 2
          /\ data[s][1][2] # data[s][2][2]
          /\ data[s][1][1] < data[s][2][1]

\* C9: start() on a running graph changes nothing of the graph: no step
\* completes, no tick is scheduled, and the running flag, the handle, the
\* buffers, the button, the range, the canvas and the log stay as they are.
C9_StartWhenRunningNoop ==
    [][(running /\ op'.name = "start") =>
          UNCHANGED <<running, after_id, timers, data, steps, streak, clock,
                      btn_text, y_min, y_max, canvas, log_len, log_last>>]_vars

\* start() has just returned on a graph that was already running, with
\* its tick pending.
C9_Witness ==
    /\ op.name = "start" /\ op.phase = "other"
    /\ running
    /\ after_id # NoId /\ after_id \in timers
    /\ steps >= 1

\* The steps in which stop() runs: stop() itself, toggle() when running.
StopRan == op'.name = "stop" \/ (op'.name = "toggle" /\ running)

\* C10: stop() returns normally in every state, also when the cancel
\* fails, with the running flag false and the handle none; on a stopped
\* graph it changes nothing.
C10_StopNeverRaises ==
    [][StopRan =>
          /\ op'.exc = "none"
          /\ ~running'
          /\ after_id' = NoId
          /\ ~running =>
                UNCHANGED <<running, after_id, timers, data, steps, streak,
                            clock, btn_text, y_min, y_max, canvas, log_len,
                            log_last>>]_vars

\* stop() has just returned under a scheduler whose cancel failed: the
\* graph is stopped, holds no handle, and a tick is still pending.
C10_Witness ==
    /\ op.name = "stop" /\ op.exc = "none"
    /\ scheduler = "best_effort"
    /\ ~running
    /\ after_id = NoId
    /\ timers # {}

\* The last operation called c.
Called(c) == \E i \in 1..Len(calls) : calls[i] = c

\* C11: for as long as none of start(), toggle() and sample_once() has been
\* called on a constructed graph (whatever redraws, resizes and stop()s
\* there were), the graph is not running, holds no handle, has no tick
\* pending, every buffer is empty, the smoothed range is unset, no step has
\* completed and the last operation did not call the sampler.
C11_NewGraphIdle ==
    op.phase = "new" =>
        /\ ~running
        /\ after_id = NoId
        /\ timers = {}
        /\ \A s \in SeriesSet : data[s] = << >>
        /\ y_min = NoneVal /\ y_max = NoneVal
        /\ steps = 0
        /\ ~Called("sampler")

\* A graph on which nothing but redraws and resizes have run has just
\* been resized to its mapped size and redrawn.
C11_Witness ==
    /\ op.phase = "new"
    /\ op.name = "resize"
    /\ size = <<200, 100>>
    /\ calls = <<"redraw">>
    /\ canvas # << >>

\* C12: a step of toggle() on a running graph is a step of stop()'s body,
\* and on a stopped graph a step of start()'s body (the whole of it: the
\* flag, the label, the immediate tick with its sample, redraw and
\* scheduling, or its exception), recorded under toggle's name; when it
\* returns normally the running flag is the negation of what it was.
C12_ToggleIsStopOrStart ==
    [][op'.name = "toggle" =>
          /\ IF running THEN StopBody("toggle") ELSE StartBody("toggle")
          /\ (op'.exc = "none" => running' = ~running)]_vars

\* toggle() has just stopped a graph that an earlier operation had set
\* running with a tick pending: it cancelled the tick as stop() does.
C12_Witness ==
    /\ op.name = "toggle"
    /\ ~running
    /\ btn_text = "Start"
    /\ calls = <<"after_cancel">>
    /\ after_id = NoId
    /\ steps >= 1

\* The name=value entries (values in thousandths) of the configured series,
\* in configured order, that the step just completed gave a value.
RECURSIVE LoggedParts(_)
LoggedParts(names) ==
    IF names = << >> THEN << >>
    ELSE (IF streak'[Head(names)].n > 0
          THEN <<[name |-> Head(names),
                  text |-> 1000 * LastOf(streak'[Head(names)].last)[2]]>>
          ELSE << >>) \o LoggedParts(Tail(names))

\* C13: a completed step on a graph with a log panel in which at least one
\* configured series received a value adds exactly one line, stamped with
\* the step's time, that lists exactly those series, in configured order,
\* each with its value; any other step, and any step without a log panel,
\* leaves the log as it was.
C13_OneLogLine ==
    [][IF steps' # steps /\ show_log /\ LoggedParts(series) # << >>
       THEN /\ log_len' = log_len + 1
            /\ log_last'.parts = LoggedParts(series)
            /\ log_last'.time = clock'
       ELSE /\ log_len' = log_len
            /\ log_last' = log_last]_vars

\* Series a and b with a log panel: of the two steps completed, one gave
\* only a a value and wrote the line "a=0.000", the other gave no
\* configured series a value and wrote none.
C13_Witness ==
    /\ series = <<"a", "b">>
    /\ show_log
    /\ steps = 2
    /\ log_len = 1
    /\ log_last.parts = <<[name |-> "a", text |-> 0]>>

\* The canvas holds the frame and the placeholder text and nothing else.
OnlyPlaceholder(items) ==
    /\ Len(items) = 2
    /\ items[1].kind = "rectangle" /\ items[1].text = "frame"
    /\ items[2].kind = "text" /\ items[2].text = "Waiting for data"

\* C14: every operation that redraws while the buffers hold fewer than 2
\* points in total leaves on the canvas the frame and the placeholder only
\* (no grid, label, polyline, marker or legend item) and leaves the
\* smoothed range as it was, unset if it was unset.
C14_PlaceholderUnderTwoPoints ==
    [][(Called("redraw")' /\ PointCount' < 2) =>
          /\ OnlyPlaceholder(canvas')
          /\ y_min' = y_min
          /\ y_max' = y_max]_vars

\* A single sample_once() on a one-series graph: the buffer has length 1,
\* the canvas shows the placeholder and the smoothed range is still unset.
C14_Witness ==
    /\ op.name = "sample_once" /\ op.exc = "none"
    /\ steps = 1
    /\ Len(series) = 1
    /\ Len(data[series[1]]) = 1
    /\ OnlyPlaceholder(canvas)
    /\ y_min = NoneVal /\ y_max = NoneVal

\* C15: the firing of a tick other than the one the stored handle names
\* (pending only because the cancel of a stop() did not remove it) calls
\* nothing, appends no sample, completes no step and schedules no tick:
\* it only leaves the scheduler's pending set.
C15_StaleTickNoop ==
    [][(fired' # NoId /\ fired' # after_id) =>
          /\ calls' = << >>
          /\ data' = data
          /\ steps' = steps
          /\ timers' = timers \ {fired'}]_vars

\* The step is a tick (the immediate one of start(), also under toggle(),
\* or a scheduled one) in which the sampler raised.
TickRaised == op'.name \in {"start", "toggle", "tick"} /\ op'.exc = "SamplerError"

\* What a tick in which the sampler raises does: the running flag stays
\* true and the label "Stop", nothing is appended and no tick is scheduled
\* (the handle is what it was, the pending set only loses the tick that
\* fired).
RaiseLeavesRunning ==
    TickRaised =>
        /\ running'
        /\ btn_text' = "Stop"
        /\ ~Called("after")'
        /\ after_id' = after_id
        /\ timers' = timers \ {fired'}
        /\ data' = data

\* C16, as stated: a tick in which the sampler raises does the above; and
\* once the graph is running without its handle naming a pending tick
\* (which is so only after such a tick), for as long as it stays running
\* no tick samples and no operation schedules one.
C16_NoTickUntilRestart ==
    [][/\ RaiseLeavesRunning
       /\ (running /\ running' /\ after_id \notin timers) =>
             /\ ~(op'.name = "tick" /\ Called("sampler")')
             /\ ~Called("after")']_vars

\* C16, amended: a tick in which the sampler raises does the above; and
\* while the graph stays running with no tick pending at all, no operation
\* schedules one (start() is a no-op, sample_once() never schedules), so
\* the periodic sampling stays ended until the graph is stopped; a tick
\* that an earlier failed cancel left pending is not covered.
C16_SamplerRaiseEndsTicks ==
    [][/\ RaiseLeavesRunning
       /\ (running /\ running' /\ timers = {}) =>
             /\ timers' = {}
             /\ ~Called("after")']_vars

\* The sampler has just raised in a scheduled tick after an earlier step
\* completed: the graph still says it runs, and no tick is pending.
C16_Witness ==
    /\ op.name = "tick" /\ op.exc = "SamplerError"
    /\ running
    /\ btn_text = "Stop"
    /\ timers = {}
    /\ steps >= 1

\* The pending ticks and the handle agree with the running flag.
HandleTracksRunning ==
    /\ running <=> (Cardinality(timers) = 1 /\ after_id \in timers)
    /\ ~running <=> (timers = {} /\ after_id = NoId)

\* A tick firing while running schedules exactly one tick: the pending set
\* becomes the new handle alone, and parent.after was called once.
TickSchedulesOne ==
    (fired' # NoId /\ running) =>
        /\ Cardinality({i \in DOMAIN calls' : calls'[i] = "after"}) = 1
        /\ after_id' # fired'
        /\ timers' = {after_id'}

C18_StoppedTickDoesNothing ==
    [][(fired' # NoId /\ ~running) =>
          /\ calls' = << >>
          /\ timers' = timers \ {fired'}
          /\ UNCHANGED <<data, running, after_id, y_min, y_max, canvas,
                         btn_text, log_len, log_last, steps, clock, config>>]_vars

C18_Witness ==
    /\ op.name = "tick"
    /\ fired # NoId
    /\ ~running
    /\ calls = << >>
    /\ PointCount >= 1
    /\ canvas # << >>

\* C20: redraw(), called on its own or by the resize handler, leaves every
\* buffer, the running flag, the handle, the pending ticks and the whole
\* configuration as they were, and calls neither the sampler nor the
\* scheduler.
C20_RedrawOnlyDraws ==
    [][(op'.name \in {"redraw", "resize"}) =>
          /\ UNCHANGED <<data, running, after_id, timers, btn_text, config>>
          /\ calls' = <<"redraw">>]_vars

C20_Witness ==
    /\ op.name = "redraw"
    /\ calls = <<"redraw">>
    /\ running
    /\ after_id \in timers
    /\ PointCount >= 2
    /\ y_min # NoneVal

\* The last operation ran the body of _tick (from start(), toggle() or a
\* scheduled firing) and the graph is running.
TickRan ==
    /\ op.name \in {"start", "toggle", "tick"}
    /\ Called("sampler")
    /\ running

\* Within every tick: sample-and-append, then redraw, then parent.after.
TickOrder == TickRan => calls = <<"sampler", "redraw", "after">>

\* The tick that completed step k is followed, unless the graph is stopped
\* or the explored number of steps is used up, by a scheduled tick that
\* calls the sampler again.
TickFollowed(k) ==
    (TickRan /\ steps = k) ~>
        \/ ~running
        \/ steps = MaxSteps
        \/ op.name = "tick" /\ Called("sampler") /\ steps > k

UsedBounds == DrawBounds(AllPoints(data), y_min[1], y_max[1])

\* C21: after every operation that called redraw() on at least 2 points in
\* total, with y_padding >= 0, the bounds the mappings used satisfy
\* t_max > t_min and y_max > y_min, whatever the timestamps and the values
\* are.
C21_BoundsOrdered ==
    (Called("redraw") /\ PointCount >= 2 /\ y_padding[1] >= 0) =>
        /\ UsedBounds.t_max > UsedBounds.t_min
        /\ UsedBounds.y_max > UsedBounds.y_min

\* C22: in every reachable state, whatever operations ran and however they
\* ended, the button reads "Stop" exactly when the running flag is true
\* and "Start" exactly when it is false.
C22_LabelTracksRunning ==
    /\ btn_text = "Stop" <=> running
    /\ btn_text = "Start" <=> ~running

C22_Witness ==
    /\ op.name = "toggle"
    /\ op.exc = "SamplerError"
    /\ running
    /\ btn_text = "Stop"
    /\ steps >= 1
====
